---------------------------- MODULE Spec2Model ----------------------------
(***************************************************************************)
(* SkeldjsPathfinder (packages/pathfinding/ts/lib/Pathfinder.ts): the      *)
(* movement controller that, on every 6th fixed-update tick of the room,   *)
(* (re)computes a path over the map's grid and walks it one cell per       *)
(* acting tick.                                                            *)
(*                                                                         *)
(* Values.  A Vector2 is a pair <<x, y>>; a grid Node is a pair of grid    *)
(* coordinates <<x, y>>; null/undefined of a Vector2 or Node is Null.  A   *)
(* path is a sequence of Nodes; a null/undefined path is NoPath, which is  *)
(* different from the empty array << >>.                                   *)
(***************************************************************************)
EXTENDS Integers, Sequences, FiniteSets, TLC

VARIABLES
    _tick,          \* SkeldjsPathfinder._tick
    _moved,         \* SkeldjsPathfinder._moved, the dirty flag
    _paused,        \* SkeldjsPathfinder._paused
    destination,    \* SkeldjsPathfinder.destination
    grid,           \* SkeldjsPathfinder.grid: the map whose grid file was loaded
    path,           \* SkeldjsPathfinder.path
    following,      \* SkeldjsPathfinder.following
    recalculateEvery, \* config.recalculateEvery (0: not configured)
    map,            \* client.room.settings.map
    position,       \* client.room.me.transform.position
    called,         \* the last operation called on the pathfinder or the room
    emitted,        \* the notifications emitted by the last operation, in order
    sinceGo,        \* what was emitted since the last go() call
    suspended,      \* the invocations of _ontick that wait at an await
    threw           \* the last step of _ontick ended in an exception

vars == << _tick, _moved, _paused, destination, grid, path, following,
           recalculateEvery, map, position, called, emitted, sinceGo,
           suspended, threw >>

-----------------------------------------------------------------------------
(* Bounds of the model *)

MaxTick == 12
GridWidth == 4
\* How many invocations of _ontick wait at an await at the same time.
MaxSuspended == 2

-----------------------------------------------------------------------------
(* Values *)

Null == << >>
NoPath == << << >> >>
NoMap == "undefined"
NoGrid == "undefined"
NoPlayer == "null"

Maps == {"TheSkeld"}
\* The maps a room's settings can name, and those of them for which
\* data/build holds a well-formed grid file.
AllMaps == {"TheSkeld", "MiraHQ", "Other"}
GridFiles == {"TheSkeld", "MiraHQ"}
Players == {"p1", "p2"}
\* The players follow() is called with (the players are interchangeable).
Followable == {"p1"}
\* The configured recalculation periods: none, every 12 ticks, every 24.
RecalculateEveryValues == {0, 12, 24}

\* A movement interval of 3 ticks.
MovementInterval_three == 6 \div 2

\* SkeldjsPathfinder.MovementInterval (line 306)
MovementInterval == 6

-----------------------------------------------------------------------------
(* Grid (util/Grid.ts) and getShortestPath (engine): a grid of              *)
(* GridWidth x GridHeight cells; the cell <<x, y>> lies at the world        *)
(* position <<OriginX + x * CellSize, OriginY + y * CellSize>>.  The grid   *)
(* of a map is named by the map it was loaded for.                          *)

GridHeight == 1
CellSize == 2
OriginX == -2
OriginY == 1

Cells == (0 .. GridWidth - 1) \X (0 .. GridHeight - 1)

\* The unwalkable cells of a map's grid: on The Skeld the last column is a
\* wall, the Mira HQ grid is open.
Walls(g) == IF g = "TheSkeld" THEN {c \in Cells : c[1] = GridWidth - 1} ELSE {}

Clamp(v, lo, hi) == IF v < lo THEN lo ELSE IF v > hi THEN hi ELSE v

\* Grid.actual: cell coordinates to world position.
actual(g, x, y) == << OriginX + x * CellSize, OriginY + y * CellSize >>

\* Grid.nearest: the cell whose centre is closest to the world point, clamped
\* to the grid (round half up, as Math.round).
nearest(g, wx, wy) ==
    << Clamp((2 * (wx - OriginX) + CellSize) \div (2 * CellSize), 0, GridWidth - 1),
       Clamp((2 * (wy - OriginY) + CellSize) \div (2 * CellSize), 0, GridHeight - 1) >>

Abs(i) == IF i < 0 THEN -i ELSE i

\* The walkable 4-neighbours of a cell.
Neighbours(g, n) ==
    {c \in Cells \ Walls(g) : Abs(c[1] - n[1]) + Abs(c[2] - n[2]) = 1}

\* Breadth-first distances to the goal: the cells at distance d, d+1, ...
RECURSIVE distances(_, _, _, _)
distances(g, frontier, seen, d) ==
    IF frontier = {} THEN [n \in {} |-> 0]
    ELSE LET nxt == (UNION {Neighbours(g, n) : n \in frontier}) \ (seen \cup frontier)
         IN  [n \in frontier |-> d] @@ distances(g, nxt, seen \cup frontier, d + 1)

RECURSIVE walk(_, _, _)
walk(g, dist, n) ==
    IF dist[n] = 0 THEN << >>
    ELSE LET nx == CHOOSE c \in Neighbours(g, n) :
                       c \in DOMAIN dist /\ dist[c] = dist[n] - 1
         IN  << nx >> \o walk(g, dist, nx)

\* getShortestPath(grid, start, goal): the cells of a shortest walkable route,
\* without the start cell and with the goal cell last; empty when start is
\* the goal and when there is no route.
getShortestPath(g, start, goal) ==
    IF start = goal \/ goal \in Walls(g) THEN << >>
    ELSE LET dist == distances(g, {goal}, {}, 0)
         IN  IF start \in DOMAIN dist THEN walk(g, dist, start) ELSE << >>

\* The world positions of a path's cells (recalculate, line 205).
RECURSIVE worldPath(_, _)
worldPath(g, p) ==
    IF p = << >> THEN << >>
    ELSE << actual(g, Head(p)[1], Head(p)[2]) >> \o worldPath(g, Tail(p))

-----------------------------------------------------------------------------
(* Notifications (SkeldjsPathfinderEvents, lines 25-70).  Every notification *)
(* is a record of the same shape; the fields an event does not carry are     *)
(* Null, FALSE or << >>.                                                     *)

Event(t, r, d, pos, p) ==
    [type |-> t, reached |-> r, destination |-> d, position |-> pos, path |-> p]

StartEvent(d) == Event("pathfinding.start", FALSE, d, Null, << >>)
StopEvent(r) == Event("pathfinding.stop", r, Null, Null, << >>)
EndEvent == Event("pathfinding.end", FALSE, Null, Null, << >>)
PauseEvent == Event("pathfinding.pause", FALSE, Null, Null, << >>)
MoveEvent(pos) == Event("engine.move", FALSE, Null, pos, << >>)
RecalculateEvent(p) == Event("engine.recalculate", FALSE, Null, Null, p)

\* The number of notifications of a log of one type, and the number of stop
\* notifications with a given reached.
CountType(log, t) == LET T(e) == e.type = t IN Len(SelectSeq(log, T))
CountStop(log, r) ==
    LET T(e) == e.type = "pathfinding.stop" /\ e.reached = r
    IN  Len(SelectSeq(log, T))

-----------------------------------------------------------------------------
(* The pathfinder object.  An operation of the class is an operator from the *)
(* object's fields before to its fields after; self is the object in the     *)
(* current state, with an empty log of notifications.                        *)

self ==
    [ _tick |-> _tick, _moved |-> _moved, _paused |-> _paused,
      destination |-> destination, grid |-> grid, path |-> path,
      following |-> following, position |-> position, emitted |-> << >>,
      threw |-> FALSE ]

\* EventEmitter.emit: the notification is delivered to the listeners.
emit(s, e) == [s EXCEPT !.emitted = Append(@, e)]

\* get snode (lines 114-118)
snode(s) ==
    IF s.position = Null THEN Null
    ELSE nearest(s.grid, s.position[1], s.position[2])

\* get dnode (lines 120-124)
dnode(s) ==
    IF s.destination = Null THEN Null
    ELSE nearest(s.grid, s.destination[1], s.destination[2])

\* recalculate() (lines 201-207)
recalculate(s) ==
    LET p == getShortestPath(s.grid, snode(s), dnode(s))
    IN  emit([s EXCEPT !.path = p], RecalculateEvent(worldPath(s.grid, p)))

\* pause() (lines 209-212)
pause(s) == emit([s EXCEPT !._paused = TRUE], PauseEvent)

\* start() (lines 214-219)
start(s) == emit([s EXCEPT !._paused = FALSE], StartEvent(s.destination))

\* _stop that leaves the dirty flag as it is.
_stop_withoutDirty(s, reached) ==
    LET s1 == [s EXCEPT !.destination = Null]
        s2 == emit(s1, StopEvent(reached))
    IN  IF reached THEN emit(s2, EndEvent) ELSE s2

\* _stop that emits the end notification before the stop notification.
_stop_endFirst(s, reached) ==
    LET s1 == [s EXCEPT !.destination = Null,
                        !._moved = IF reached THEN @ ELSE TRUE]
        s2 == IF reached THEN emit(s1, EndEvent) ELSE s1
    IN  emit(s2, StopEvent(reached))

\* _stop(reached) (lines 221-229)
_stop(s, reached) ==
    LET s1 == [s EXCEPT !.destination = Null,
                        !._moved = IF reached THEN @ ELSE TRUE]
        s2 == emit(s1, StopEvent(reached))
    IN  IF reached THEN emit(s2, EndEvent) ELSE s2

\* stop() (lines 231-233)
stop(s) == _stop(s, FALSE)

\* _go that leaves the pause flag as it is.
_go_keepsPause(s, dest) ==
    emit([s EXCEPT !.destination = << dest[1], dest[2] >>, !._moved = TRUE],
         StartEvent(<< dest[1], dest[2] >>))

\* _go(dest) (lines 235-243)
_go(s, dest) ==
    start([s EXCEPT !.destination = << dest[1], dest[2] >>, !._moved = TRUE])

\* What go() is called with: a Vector2 (kind "vec": x, y), a Node (kind
\* "node": grid coordinates x, y) or a PlayerDataResolvable (kind "player":
\* spawned tells whether room.resolvePlayer finds a spawned player, and x, y
\* is that player's transform.position).
GoArg(k, x, y, sp) == [kind |-> k, x |-> x, y |-> y, spawned |-> sp]

\* go(pos) (lines 245-266).  A player object has no x; a Vector2 resolves to
\* no player.
go(s, pos) ==
    IF pos.kind # "player" /\ pos.x # 0 THEN _go(s, << pos.x, pos.y >>)
    ELSE IF pos.kind = "node" THEN s
    ELSE IF pos.kind = "player" /\ pos.spawned
         THEN (IF pos.x # 0 THEN _go(s, << pos.x, pos.y >>) ELSE s)
         ELSE s

\* _handleMove that takes the position and leaves the dirty flag as it is.
_handleMove_withoutDirty(s, owner, pos) ==
    IF owner = s.following
    THEN [s EXCEPT !.destination = << pos[1], pos[2] >>]
    ELSE s

\* _handleMove(ev) (lines 276-289); owner is ev.data.component.owner.
_handleMove(s, owner, pos) ==
    IF owner = s.following
    THEN [s EXCEPT !.destination = << pos[1], pos[2] >>, !._moved = TRUE]
    ELSE s

\* _handleLeave that stops and goes on following the player.
_handleLeave_keepsFollowing(s, player) ==
    IF player = s.following THEN _stop(s, FALSE) ELSE s

\* _handleLeave(ev) (lines 291-296)
_handleLeave(s, player) ==
    IF player = s.following
    THEN [_stop(s, FALSE) EXCEPT !.following = NoPlayer]
    ELSE s

\* follow(player) (lines 298-304); resolved is NoPlayer unless
\* room.resolvePlayer finds the player and it is spawned.
follow(s, resolved) ==
    IF resolved # NoPlayer THEN [s EXCEPT !.following = resolved] ELSE s

\* The recalculation condition with a period that is not configured never
\* elapsing.
mustRecalculate_unsetNeverElapses(s, every) ==
    \/ s._moved
    \/ s.path = NoPath
    \/ (every # 0 /\ s._tick % every = 0)

\* The recalculation condition of _ontick (lines 166-170).
mustRecalculate(s, every) ==
    \/ s._moved
    \/ s.path = NoPath
    \/ s._tick % (IF every = 0 THEN 1 ELSE every) = 0

\* step with a path that has no next cell given up by clearing the path alone.
step_keepsDestination(s, accept) ==
    IF s.path # << >>
    THEN LET next == Head(s.path)
             pos == actual(s.grid, next[1], next[2])
             s1 == emit([s EXCEPT !.path = Tail(@)], MoveEvent(pos))
             s2 == IF accept THEN [s1 EXCEPT !.position = pos] ELSE s1
         IN  IF s2.path = << >> THEN _stop(s2, TRUE) ELSE s2
    ELSE [s EXCEPT !.path = NoPath]

\* step with a path that has no next cell left as it is, to be retried.
step_holdsEmptyPath(s, accept) ==
    IF s.path # << >>
    THEN LET next == Head(s.path)
             pos == actual(s.grid, next[1], next[2])
             s1 == emit([s EXCEPT !.path = Tail(@)], MoveEvent(pos))
             s2 == IF accept THEN [s1 EXCEPT !.position = pos] ELSE s1
         IN  IF s2.path = << >> THEN _stop(s2, TRUE) ELSE s2
    ELSE s

\* step that puts the cell back when the move intent is rejected.
step_refundsRejected(s, accept) ==
    IF s.path # << >>
    THEN LET next == Head(s.path)
             pos == actual(s.grid, next[1], next[2])
             s1 == emit([s EXCEPT !.path = Tail(@)], MoveEvent(pos))
             s2 == IF accept THEN [s1 EXCEPT !.position = pos]
                   ELSE [s1 EXCEPT !.path = s.path]
         IN  IF s2.path = << >> THEN _stop(s2, TRUE) ELSE s2
    ELSE [s EXCEPT !.destination = Null, !.path = NoPath]

\* Lines 177-198 of _ontick: take the next cell of the path and move to it;
\* accept is the listeners' answer to the engine.move notification.
step(s, accept) ==
    IF s.path # << >>
    THEN LET next == Head(s.path)
             pos == actual(s.grid, next[1], next[2])
             s1 == emit([s EXCEPT !.path = Tail(@)], MoveEvent(pos))
             s2 == IF accept THEN [s1 EXCEPT !.position = pos] ELSE s1
         IN  IF s2.path = << >> THEN _stop(s2, TRUE) ELSE s2
    ELSE [s EXCEPT !.destination = Null, !.path = NoPath]

\* consume without the test of the pause flag.
consume_ignoresPause(s, accept) == step(s, accept)

\* Lines 175-198 of _ontick: nothing more when paused.
consume(s, accept) == IF s._paused THEN s ELSE step(s, accept)

\* Lines 166-173 of _ontick.
refresh(s, every) ==
    IF mustRecalculate(s, every)
    THEN [recalculate(s) EXCEPT !._moved = FALSE]
    ELSE s

\* _ontick that forgets the dirty flag when it finds no position or no
\* destination.
_ontick_skipClearsDirty(s, m, every, accept) ==
    LET s1 == [s EXCEPT !._tick = @ + 1]
        s2 == IF s1.grid = NoGrid THEN [s1 EXCEPT !.grid = m] ELSE s1
    IN  IF s1._tick % MovementInterval # 0 THEN s1
        ELSE IF m = NoMap THEN s1
        ELSE IF s1.grid = NoGrid /\ m \notin GridFiles
             THEN [s1 EXCEPT !.threw = TRUE]
        ELSE IF snode(s2) = Null \/ dnode(s2) = Null
             THEN [s2 EXCEPT !._moved = FALSE]
        ELSE consume(refresh(s2, every), accept)

\* _ontick() (lines 150-199), run to its end; m is this.map, every is
\* config.recalculateEvery.  fs.readFileSync and Grid.fromBuffer throw when
\* the map has no well-formed grid file.
_ontick(s, m, every, accept) ==
    LET s1 == [s EXCEPT !._tick = @ + 1]
        s2 == IF s1.grid = NoGrid THEN [s1 EXCEPT !.grid = m] ELSE s1
    IN  IF s1._tick % MovementInterval # 0 THEN s1
        ELSE IF m = NoMap THEN s1
        ELSE IF s1.grid = NoGrid /\ m \notin GridFiles
             THEN [s1 EXCEPT !.threw = TRUE]
        ELSE IF snode(s2) = Null \/ dnode(s2) = Null THEN s2
        ELSE consume(refresh(s2, every), accept)

\* Where an invocation of _ontick stands after a step: the object, and the
\* await at which it waits ("recalculate": line 171, in recalculate's line
\* 204; "move": line 185, with the local pos) or "done" when it has returned
\* or thrown.
Outcome(s, at, pos) == [obj |-> s, at |-> at, pos |-> pos]

\* Lines 175-185 of _ontick, up to the await of the engine.move emission.
\* this.path.shift() throws when the path is null, this.position.x when
\* there is no position.
walkBegin(s) ==
    IF s._paused THEN Outcome(s, "done", Null)
    ELSE IF s.path = NoPath THEN Outcome([s EXCEPT !.threw = TRUE], "done", Null)
    ELSE IF s.path = << >>
         THEN Outcome([s EXCEPT !.destination = Null, !.path = NoPath], "done", Null)
    ELSE LET next == Head(s.path)
             pos == actual(s.grid, next[1], next[2])
             s1 == [s EXCEPT !.path = Tail(@)]
         IN  IF s.position = Null
             THEN Outcome([s1 EXCEPT !.threw = TRUE], "done", Null)
             ELSE Outcome(emit(s1, MoveEvent(pos)), "move", pos)

\* Lines 185-194 of _ontick, from the answer to the engine.move emission.
\* this.transform.move throws when there is no transform, this.path.length
\* when the path is null.
walkEnd(s, pos, accept) ==
    IF accept /\ s.position = Null THEN [s EXCEPT !.threw = TRUE]
    ELSE LET s1 == IF accept THEN [s EXCEPT !.position = pos] ELSE s
         IN  IF s1.path = NoPath THEN [s1 EXCEPT !.threw = TRUE]
             ELSE IF s1.path = << >> THEN _stop(s1, TRUE)
             ELSE s1

\* Lines 150-171 of _ontick, up to its first await or its return.
_ontick_begin(s, m, every) ==
    LET s1 == [s EXCEPT !._tick = @ + 1]
        s2 == IF s1.grid = NoGrid THEN [s1 EXCEPT !.grid = m] ELSE s1
    IN  IF s1._tick % MovementInterval # 0 THEN Outcome(s1, "done", Null)
        ELSE IF m = NoMap THEN Outcome(s1, "done", Null)
        ELSE IF s1.grid = NoGrid /\ m \notin GridFiles
             THEN Outcome([s1 EXCEPT !.threw = TRUE], "done", Null)
        ELSE IF snode(s2) = Null \/ dnode(s2) = Null THEN Outcome(s2, "done", Null)
        ELSE IF mustRecalculate(s2, every)
             THEN Outcome(recalculate(s2), "recalculate", Null)
        ELSE walkBegin(s2)

\* Lines 172-185 of _ontick, from the return of recalculate().
afterRecalculate(s) == walkBegin([s EXCEPT !._moved = FALSE])

-----------------------------------------------------------------------------
(* The inputs of the model *)

\* The world positions go() is given: the centre of every cell, and a point
\* left of the grid.
Dests ==
    {actual("TheSkeld", c[1], c[2]) : c \in Cells}
        \cup {<< OriginX - CellSize, OriginY >>}

\* Where a player (the agent, a followed player) can be: the centre of a cell
\* that is walkable on every map.
SpawnPoints == {actual("TheSkeld", c[1], c[2]) : c \in Cells \ Walls("TheSkeld")}

\* Where a followed player is reported to have moved to: the first cell and
\* the third.
FollowedAt == {actual("TheSkeld", 0, 0), actual("TheSkeld", 2, 0)}

\* The cells go() is given: those of the first two columns.
GoCells == {c \in Cells : c[1] <= 1}

\* The players go() is given: a spawned player in a cell of the first two
\* columns, and a player that is not spawned or not in the room.
GoArgs ==
    {GoArg("vec", d[1], d[2], FALSE) : d \in Dests}
        \cup {GoArg("node", c[1], c[2], FALSE) : c \in GoCells}
        \cup {GoArg("player", actual("TheSkeld", c[1], c[2])[1],
                     actual("TheSkeld", c[1], c[2])[2], TRUE) : c \in GoCells}
        \cup {GoArg("player", 0, 0, FALSE)}

-----------------------------------------------------------------------------
(* The state machine *)

\* sinceGo: dest is the destination go() last left; the record is active while
\* nothing but ticks whose move intents were accepted followed that call;
\* acted tells that one of those ticks got past line 164; stops and ends
\* count the stop notifications with reached = true and the end
\* notifications of those ticks; paused tells whether that go() found the
\* pause flag set.
Inactive ==
    [active |-> FALSE, dest |-> Null, acted |-> FALSE,
     stops |-> 0, ends |-> 0, paused |-> FALSE]

Init ==
    /\ _tick = 0
    /\ _moved = FALSE
    /\ _paused = FALSE
    /\ destination = Null
    /\ grid = NoGrid
    /\ path = NoPath
    /\ following = NoPlayer
    /\ recalculateEvery \in RecalculateEveryValues
    /\ map = NoMap
    /\ position = Null
    /\ called = "constructor"
    /\ emitted = << >>
    /\ sinceGo = Inactive
    /\ suspended = << >>
    /\ threw = FALSE

\* Operation op was called, and the object's fields become those of s.
Becomes(op, s) ==
    /\ called' = op
    /\ _tick' = s._tick
    /\ _moved' = s._moved
    /\ _paused' = s._paused
    /\ destination' = s.destination
    /\ grid' = s.grid
    /\ path' = s.path
    /\ following' = s.following
    /\ position' = s.position
    /\ emitted' = s.emitted
    /\ threw' = s.threw
    /\ UNCHANGED << recalculateEvery, map >>

\* Whether the tick that starts in the current state acts: it is a 6th tick
\* and gets past the early returns of lines 153-164 (map, position and
\* destination are available).
Acts ==
    /\ (_tick + 1) % 6 = 0
    /\ map # NoMap
    /\ position # Null
    /\ destination # Null

\* The invocations of _ontick that wait, each with the note whether stop() or
\* the followed player's departure was the last to touch the destination
\* while it waited.
Mark(b) == [i \in 1 .. Len(suspended) |-> [suspended[i] EXCEPT !.stopped = b]]

\* room.fixedupdate: one tick, whose handler runs to its end.
Tick(accept) ==
    /\ _tick < MaxTick
    /\ suspended = << >>
    /\ UNCHANGED suspended
    /\ Becomes("tick", _ontick(self, map, recalculateEvery, accept))
    /\ sinceGo' =
         IF ~sinceGo.active THEN sinceGo
         ELSE IF CountType(emitted', "engine.move") > 0 /\ ~accept THEN Inactive
         ELSE [active |-> TRUE,
               dest |-> sinceGo.dest,
               acted |-> sinceGo.acted \/ Acts,
               stops |-> sinceGo.stops + CountStop(emitted', TRUE),
               ends |-> sinceGo.ends + CountType(emitted', "pathfinding.end"),
               paused |-> sinceGo.paused]

Go(pos) ==
    /\ Becomes("go", go(self, pos))
    /\ suspended' = IF emitted' # << >> THEN Mark(FALSE) ELSE suspended
    /\ sinceGo' = [active |-> TRUE, dest |-> destination', acted |-> FALSE,
                   stops |-> 0, ends |-> 0, paused |-> _paused]

Stop ==
    /\ Becomes("stop", stop(self))
    /\ suspended' = Mark(TRUE)
    /\ sinceGo' = Inactive

Pause ==
    /\ Becomes("pause", pause(self))
    /\ sinceGo' = Inactive
    /\ UNCHANGED suspended

Start ==
    /\ Becomes("start", start(self))
    /\ sinceGo' = Inactive
    /\ UNCHANGED suspended

\* recalculate() called from outside; it throws, before it changes a field,
\* when there is no grid, no position or no destination.
Recalculate ==
    /\ grid # NoGrid /\ position # Null /\ destination # Null
    /\ Becomes("recalculate", recalculate(self))
    /\ sinceGo' = Inactive
    /\ UNCHANGED suspended

Follow(resolved) ==
    /\ Becomes("follow", follow(self, resolved))
    /\ sinceGo' = Inactive
    /\ UNCHANGED suspended

\* player.move
HandleMove(owner, pos) ==
    /\ Becomes("player.move", _handleMove(self, owner, pos))
    /\ suspended' = IF owner = following THEN Mark(FALSE) ELSE suspended
    /\ sinceGo' = Inactive

\* player.leave
HandleLeave(player) ==
    /\ Becomes("player.leave", _handleLeave(self, player))
    /\ suspended' = IF player = following THEN Mark(TRUE) ELSE suspended
    /\ sinceGo' = Inactive

\* The room's settings arrive or change.
SetMap(m) ==
    /\ m # map
    /\ map' = m
    /\ called' = "room.settings"
    /\ emitted' = << >>
    /\ sinceGo' = Inactive
    /\ threw' = FALSE
    /\ UNCHANGED << _tick, _moved, _paused, destination, grid, path, following,
                    recalculateEvery, position, suspended >>

\* The agent spawns, despawns or is put somewhere else by the room.
SetPosition(p) ==
    /\ p # position
    /\ position' = p
    /\ called' = "room.me"
    /\ emitted' = << >>
    /\ sinceGo' = Inactive
    /\ threw' = FALSE
    /\ UNCHANGED << _tick, _moved, _paused, destination, grid, path, following,
                    recalculateEvery, map, suspended >>

Next ==
    \/ \E accept \in BOOLEAN : Tick(accept)
    \/ \E pos \in GoArgs : Go(pos)
    \/ Stop
    \/ Pause
    \/ Start
    \/ Recalculate
    \/ \E r \in Followable \cup {NoPlayer} : Follow(r)
    \/ \E o \in Players, p \in FollowedAt : HandleMove(o, p)
    \/ \E pl \in Players : HandleLeave(pl)
    \/ \E m \in Maps \cup {NoMap} : SetMap(m)
    \/ \E p \in SpawnPoints \cup {Null} : SetPosition(p)

Spec == Init /\ [][Next]_vars

-----------------------------------------------------------------------------
(* The state machine with the awaits of _ontick: an invocation runs to its  *)
(* next await (the engine.recalculate emission of line 204, the engine.move *)
(* emission of line 185) and goes on when the emission has been answered;   *)
(* what the listeners and the room do in between are steps of their own.    *)

\* The suspended invocations without the i-th.
Without(i) ==
    SubSeq(suspended, 1, i - 1) \o SubSeq(suspended, i + 1, Len(suspended))

\* room.fixedupdate: _ontick is invoked and runs to its first await or to its
\* end.
TickBegin ==
    /\ _tick < MaxTick
    /\ LET o == _ontick_begin(self, map, recalculateEvery)
       IN  /\ o.at # "done" => Len(suspended) < MaxSuspended
           /\ Becomes("tick", o.obj)
           /\ suspended' =
                IF o.at = "done" THEN suspended
                ELSE Append(suspended, [at |-> o.at, pos |-> o.pos, stopped |-> FALSE])
    /\ sinceGo' = Inactive

\* The emission the i-th suspended invocation waits for has been answered
\* (accept is the answer to engine.move), and the invocation runs to its next
\* await or to its end.
TickResume(i, accept) ==
    /\ i \in 1 .. Len(suspended)
    /\ LET k == suspended[i]
           o == IF k.at = "recalculate" THEN afterRecalculate(self)
                ELSE Outcome(walkEnd(self, k.pos, accept), "done", Null)
       IN  /\ k.at = "recalculate" => accept
           /\ Becomes("tick.resume", o.obj)
           /\ suspended' =
                IF o.at = "done" THEN Without(i)
                ELSE Append(Without(i), [at |-> o.at, pos |-> o.pos, stopped |-> k.stopped])
    /\ sinceGo' = Inactive

\* What go() is given where the awaits are modelled: the centre of the first
\* cell, of the third and of the last, which is a wall on The Skeld.
AsyncGoArgs ==
    {GoArg("vec", actual("TheSkeld", x, 0)[1], actual("TheSkeld", x, 0)[2], FALSE) :
        x \in {0, 2, GridWidth - 1}}

\* Where the agent spawns, and where the followed player moves to, where the
\* awaits are modelled: the first cell and the second.
AsyncSpawnPoints == {actual("TheSkeld", 0, 0)}
AsyncFollowedAt == {actual("TheSkeld", 1, 0)}

NextAsync ==
    \/ TickBegin
    \/ \E i \in 1 .. MaxSuspended, accept \in BOOLEAN : TickResume(i, accept)
    \/ \E pos \in AsyncGoArgs : Go(pos)
    \/ Stop
    \/ Pause
    \/ Start
    \/ Recalculate
    \/ \E r \in Followable \cup {NoPlayer} : Follow(r)
    \/ \E o \in Followable, p \in AsyncFollowedAt : HandleMove(o, p)
    \/ \E pl \in Followable : HandleLeave(pl)
    \/ \E m \in AllMaps : SetMap(m)
    \/ \E p \in AsyncSpawnPoints \cup {Null} : SetPosition(p)

SpecAsync == Init /\ [][NextAsync]_vars

-----------------------------------------------------------------------------
(* Vocabulary of the properties *)

\* The cell of a world position on the loaded grid.
CellOf(v) == nearest("TheSkeld", v[1], v[2])

\* The step is a tick.
IsTick == called' = "tick"

\* The notifications of one type among those of the step.
Emitted(t) == CountType(emitted', t)

\* The step recalculated: it emitted one recalculate notification, whose path
\* is the shortest path from the agent's cell to the destination's cell as
\* they were before the step, and that whole path is held or walked.
Recalculated ==
    /\ Emitted("engine.recalculate") = 1
    /\ Head(emitted').type = "engine.recalculate"
    /\ Head(emitted').path =
         worldPath(grid', getShortestPath(grid', CellOf(position), CellOf(destination)))

\* C1 (as claimed): once go(D) was called and ticks alone followed, with map
\* and position available and every move intent accepted, until no cell of
\* the path is left, exactly one stop notification with reached = true and
\* exactly one end notification were emitted, and destination and path are
\* cleared; D in the agent's own cell included.
C1_GoThenTicksEmitOneStopOneEnd ==
    (sinceGo.active /\ sinceGo.acted /\ (path = NoPath \/ path = << >>))
        => (sinceGo.stops = 1 /\ sinceGo.ends = 1 /\ destination = Null)

\* C2 (as claimed): between operations destination and path are both present
\* or both absent.
C2_DestinationAndPathTogether == (destination = Null) <=> (path = NoPath)

\* C2 (amended): a path comes to be held only where a destination is present,
\* and a held path is dropped only by a step that leaves no destination.
C2_PathSetAndDroppedWithDestination ==
    [][ /\ (path = NoPath /\ path' # NoPath) => destination # Null
        /\ (path # NoPath /\ path' = NoPath) => destination' = Null ]_vars

\* A tick has recalculated, found no cell to walk and dropped path and
\* destination together.
C2_Witness ==
    /\ called = "tick"
    /\ CountType(emitted, "engine.recalculate") = 1
    /\ path = NoPath
    /\ destination = Null

\* The tick recalculated for a goal it cannot reach: the agent's cell and the
\* destination's cell differ and the recalculated path is empty.
FoundUnreachable ==
    /\ IsTick
    /\ Emitted("engine.recalculate") = 1
    /\ Head(emitted').path = << >>
    /\ position # Null /\ destination # Null
    /\ CellOf(position) # CellOf(destination)

RecalculationDue ==
    \/ _moved
    \/ path = NoPath
    \/ (_tick + 1) % (IF recalculateEvery = 0 THEN 1 ELSE recalculateEvery) = 0

\* C4: stop() clears the destination, sets the dirty flag, emits one stop
\* notification with reached = false and nothing else, and leaves the
\* followed player as it is.  The dirty flag then stays set until a tick
\* recalculates, and the next tick that acts (a 6th tick that finds map,
\* position and destination available) with the flag set recalculates from
\* the agent's position to the destination it finds, whatever path was held:
\* a go() after the stop is answered by a fresh path.
C4_StopThenFreshRecalculation ==
    [][ /\ called' = "stop" =>
              /\ destination' = Null
              /\ _moved'
              /\ emitted' = << StopEvent(FALSE) >>
              /\ following' = following
        /\ (_moved /\ ~_moved') => (IsTick /\ Recalculated)
        /\ (IsTick /\ Acts /\ _moved) => Recalculated ]_vars

\* stop() was called while a path with cells left was held and a player was
\* followed.
C4_Witness ==
    /\ called = "stop"
    /\ path # NoPath /\ path # << >>
    /\ following # NoPlayer
    /\ destination = Null
    /\ _moved

\* C5: a tick of a paused pathfinder emits no move intent, does not move the
\* agent and pops no cell (the path is the one held, or the whole path just
\* recalculated); if it acts and a recalculation is due it recalculates and
\* emits the recalculate notification.  start() clears the pause flag, and a
\* tick that acts unpaused emits a move intent unless there is no cell to go
\* to.
C5_PauseSuppressesMovesOnly ==
    [][ /\ (IsTick /\ _paused) =>
              /\ Emitted("engine.move") = 0
              /\ position' = position
              /\ \/ path' = path /\ Emitted("engine.recalculate") = 0
                 \/ /\ Recalculated
                    /\ path' # NoPath
                    /\ worldPath(grid', path') = Head(emitted').path
        /\ (IsTick /\ _paused /\ Acts /\ RecalculationDue) => Recalculated
        /\ called' = "start" => ~_paused'
        /\ (IsTick /\ ~_paused /\ Acts) =>
              (Emitted("engine.move") = 1 \/ path' = NoPath) ]_vars

\* A tick of a paused pathfinder recalculated a path with cells and walked
\* none of them.
C5_Witness ==
    /\ called = "tick"
    /\ _paused
    /\ Len(emitted) = 1
    /\ emitted[1].type = "engine.recalculate"
    /\ emitted[1].path # << >>
    /\ worldPath(grid, path) = emitted[1].path

\* The fields of the pathfinder that a notification about another player, or
\* a tick that does not act, must leave alone.
Fields == << _moved, _paused, destination, grid, path, following, position >>

\* C6 (as claimed): for every world position D, x = 0 included, go(D) sets
\* the destination to D, sets the dirty flag and emits a start notification
\* that carries D.
C6_GoSetsEveryDestination ==
    [][ \A d \in Dests :
          (called' = "go" /\ Go(GoArg("vec", d[1], d[2], FALSE))) =>
              /\ destination' = d
              /\ _moved'
              /\ emitted' = << StartEvent(d) >> ]_vars

\* C7 (as claimed): go(cell) sets the destination to the world position of
\* the cell, sets the dirty flag and emits a start notification, as
\* go(position) does for that world position.
C7_GoAcceptsCell ==
    [][ \A c \in GoCells :
          (called' = "go" /\ Go(GoArg("node", c[1], c[2], FALSE))) =>
              /\ destination' = actual("TheSkeld", c[1], c[2])
              /\ _moved'
              /\ emitted' = << StartEvent(actual("TheSkeld", c[1], c[2])) >> ]_vars

\* C8: a position notification of the followed player with position P2 makes
\* P2 the destination and sets the dirty flag, whatever the state; the flag
\* stays set until a tick recalculates, and the next tick that acts (a 6th
\* tick that finds map and position available) with the flag set emits a
\* recalculate notification whose path leads from the agent's cell to the
\* cell nearest the destination it finds, P2.  A position notification of any
\* other player changes no field.
C8_FollowedMoveRetargets ==
    [][ /\ \A o \in Players, p \in FollowedAt :
              ( /\ called' = "player.move"
                /\ destination' = (IF o = following THEN p ELSE destination)
                /\ HandleMove(o, p) ) =>
                  IF o = following
                  THEN destination' = p /\ _moved' /\ emitted' = << >>
                  ELSE UNCHANGED Fields /\ emitted' = << >>
        /\ (_moved /\ ~_moved') => (IsTick /\ Recalculated)
        /\ (IsTick /\ Acts /\ _moved) =>
              /\ Recalculated
              /\ Head(emitted').path # << >> =>
                    CellOf(Head(emitted').path[Len(Head(emitted').path)])
                        = CellOf(destination) ]_vars

\* The followed player has moved while a path to another cell was held: the
\* destination is the new position and the path still ends at the old one.
C8_Witness ==
    /\ called = "player.move"
    /\ following # NoPlayer
    /\ _moved
    /\ path # NoPath /\ path # << >>
    /\ path[Len(path)] # CellOf(destination)

\* C9: a departure notification of the followed player clears the
\* destination, emits one stop notification with reached = false and nothing
\* else, and clears the followed reference; with no player followed, a
\* position notification changes no field.  A departure of any other player
\* changes no field and emits nothing.
C9_FollowedLeaveStops ==
    [][ /\ \A pl \in Players :
              (called' = "player.leave" /\ HandleLeave(pl)) =>
                  IF pl = following
                  THEN /\ destination' = Null
                       /\ emitted' = << StopEvent(FALSE) >>
                       /\ following' = NoPlayer
                  ELSE UNCHANGED Fields /\ emitted' = << >>
        /\ (called' = "player.move" /\ following = NoPlayer) =>
              UNCHANGED Fields ]_vars

\* The followed player has left while a destination was set.
C9_Witness ==
    /\ called = "player.leave"
    /\ following = NoPlayer
    /\ emitted = << StopEvent(FALSE) >>
    /\ destination = Null
    /\ path # NoPath

\* C10: every tick increases the tick counter by exactly 1, and a tick whose
\* counter is not a multiple of 6 runs no search, emits nothing and changes
\* no other field.
C10_ActsEverySixthTick ==
    [][ IsTick =>
          /\ _tick' = _tick + 1
          /\ (_tick + 1) % 6 # 0 => (UNCHANGED Fields /\ emitted' = << >>) ]_vars

\* A tick that was not the 6th passed while a destination was set and a
\* recalculation was due.
C10_Witness ==
    /\ called = "tick"
    /\ _tick % 6 = 3
    /\ destination # Null /\ position # Null /\ map # NoMap
    /\ _moved

\* The path the tick that starts in the current state holds when it reaches
\* line 177: the one it has just recalculated if a recalculation is due, the
\* one held before otherwise.
HeldAtPop ==
    IF RecalculationDue
    THEN getShortestPath(IF grid = NoGrid THEN map ELSE grid,
                         CellOf(position), CellOf(destination))
    ELSE path

\* C11: a tick that acts unpaused and holds a path with cells when it comes
\* to walk removes exactly the first cell from the path and emits exactly one
\* move intent, for the world position of that cell; the agent is moved there
\* if the intent is accepted and stays where it is if not, and the cell is
\* removed either way.
C11_PopsOneCellMovesIfAccepted ==
    [][ \A accept \in BOOLEAN :
          ( /\ called' = "tick" /\ Tick(accept)
            /\ Acts /\ ~_paused /\ HeldAtPop # << >> ) =>
              /\ path' = Tail(HeldAtPop)
              /\ Emitted("engine.move") = 1
              /\ \E i \in 1 .. Len(emitted') :
                    emitted'[i] = MoveEvent(actual(grid', Head(HeldAtPop)[1],
                                                   Head(HeldAtPop)[2]))
              /\ position' = IF accept
                             THEN actual(grid', Head(HeldAtPop)[1], Head(HeldAtPop)[2])
                             ELSE position ]_vars

\* A tick has emitted a move intent that was rejected: the agent is not where
\* the intent points, and the path goes on behind the cell that was removed.
C11_Witness ==
    /\ called = "tick"
    /\ CountType(emitted, "engine.move") = 1
    /\ emitted[Len(emitted)].type = "engine.move"
    /\ position # emitted[Len(emitted)].position
    /\ path # NoPath /\ path # << >>

C13_TickNeverThrows == ~threw

\* C14 (as claimed): a tick that searches uses the grid of the map the room's
\* settings name at that tick, also after the map has changed, and a grid
\* once loaded for a map is not loaded again for that map.
C14_GridOfCurrentMap ==
    [][ /\ (called' = "tick" /\ Emitted("engine.recalculate") > 0) => grid' = map
        /\ (grid # NoGrid /\ grid = map) => grid' = grid ]_vars

\* C15 (as claimed): from the step in which an invocation of _ontick starts
\* to act to the step in which it ends, its awaits included, no other
\* operation (go, stop, pause, start, a notification of the followed player,
\* another tick) changes destination, path, dirty flag or pause flag.
C15_TickIsAtomic ==
    [][ (suspended # << >> /\ called' # "tick.resume") =>
            UNCHANGED << destination, path, _moved, _paused >> ]_vars

\* C16 (as claimed): a recalculation, by a tick or by recalculate() called
\* from outside, has cleared the dirty flag when its recalculate notification
\* is delivered, and a dirty flag found set when the tick goes on after that
\* notification (set by a listener meanwhile) is still set afterwards.
C16_DirtyClearedBeforeNotification ==
    [][ /\ Emitted("engine.recalculate") > 0 => ~_moved'
        /\ \A i \in 1 .. Len(suspended) :
              (called' = "tick.resume" /\ suspended[i].at = "recalculate"
                  /\ _moved /\ TickResume(i, TRUE)) => _moved' ]_vars

\* C17: a tick that acts recalculates if and only if the dirty flag is set,
\* or no path is held (an empty path is a held path), or the tick counter is
\* a multiple of the configured period, a period that is not configured or 0
\* counting as 1, so that every acting tick then recalculates; when it
\* recalculates it emits one recalculate notification with the new path, and
\* when it does not it emits none and goes on with the path it held: paused
\* it leaves the path as it is, unpaused it takes the first cell of that path
\* or, when that path has no cell, gives the destination up.
C17_RecalculatesIffDue ==
    [][ (IsTick /\ Acts) =>
          LET due == \/ _moved
                     \/ path = NoPath
                     \/ recalculateEvery \in {0, 1}
                     \/ (recalculateEvery > 1 /\ (_tick + 1) % recalculateEvery = 0)
          IN
          /\ due => Recalculated
          /\ ~due =>
                /\ Emitted("engine.recalculate") = 0
                /\ _paused => path' = path
                /\ (~_paused /\ path # << >>) =>
                      /\ path' = Tail(path)
                      /\ Head(emitted') =
                            MoveEvent(actual(grid', Head(path)[1], Head(path)[2]))
                /\ (~_paused /\ path = << >>) =>
                      (path' = NoPath /\ destination' = Null /\ emitted' = << >>) ]_vars

\* With a period of 24 ticks, an acting tick found the dirty flag clear and a
\* path held and walked on along that path without a new search.
C17_Witness ==
    /\ called = "tick"
    /\ recalculateEvery = 24
    /\ _tick = 2 * MovementInterval
    /\ Len(emitted) >= 1
    /\ emitted[1].type = "engine.move"

\* C18: a 6th tick that finds no map, no position or no destination emits
\* nothing, runs no search, does not move the agent and leaves destination,
\* path, pause flag and dirty flag as they are.  Nothing but a recalculating
\* tick clears the dirty flag, and a tick that acts with the flag set
\* recalculates: the mark is honoured by the first later 6th tick that finds
\* all three.
C18_UnavailableIsNoOp ==
    [][ /\ ( /\ IsTick
              /\ (_tick + 1) % MovementInterval = 0
              /\ (map = NoMap \/ position = Null \/ destination = Null) ) =>
                /\ emitted' = << >>
                /\ UNCHANGED << destination, path, _paused, _moved, position >>
        /\ (_moved /\ ~_moved') => (IsTick /\ Acts /\ Recalculated)
        /\ ( /\ IsTick
              /\ (_tick + 1) % MovementInterval = 0
              /\ map # NoMap /\ position # Null /\ destination # Null
              /\ _moved ) => (Recalculated /\ ~_moved') ]_vars

\* The first 6th tick after go() found the map, the destination with its
\* dirty mark and no position, and left destination and mark as they were.
C18_Witness ==
    /\ called = "tick"
    /\ _tick = MovementInterval
    /\ sinceGo.active /\ ~sinceGo.acted
    /\ destination # Null
    /\ position = Null
    /\ map # NoMap
    /\ _moved
    /\ emitted = << >>

\* C19 (as claimed): once stop() or the followed player's departure has
\* cleared the destination, and until go() or a movement of the followed
\* player sets one, no step of _ontick emits a move intent or moves the
\* agent: not a tick that starts without a destination, and not an invocation
\* that waited at an await while stop() was called; and when such an
\* invocation ends, the dirty flag stop() set is still set.
C19_NoMoveAfterStop ==
    [][ /\ (called' = "tick" /\ destination = Null) =>
              (Emitted("engine.move") = 0 /\ position' = position)
        /\ \A i \in 1 .. Len(suspended), accept \in BOOLEAN :
              ( /\ called' = "tick.resume"
                /\ suspended[i].stopped
                /\ TickResume(i, accept) ) =>
                  /\ Emitted("engine.move") = 0
                  /\ position' = position
                  /\ Len(suspended') < Len(suspended) => _moved' ]_vars

\* C20: a go() that sets a destination (it emits the start notification)
\* leaves the pause flag clear, whatever it was, and a go() that sets none
\* leaves the flag as it is; a tick that then acts unpaused emits a move
\* intent when there is a cell to walk to.  A position notification, of the
\* followed player too, leaves the pause flag as it is.
C20_GoUnpausesFollowedMoveDoesNot ==
    [][ /\ (called' = "go" /\ emitted' # << >>) =>
              (~_paused' /\ destination' # Null /\ _moved')
        /\ (called' = "go" /\ emitted' = << >>) => _paused' = _paused
        /\ called' = "player.move" => _paused' = _paused
        /\ (IsTick /\ Acts /\ ~_paused /\ HeldAtPop # << >>) =>
              Emitted("engine.move") = 1 ]_vars

\* go() found the pause flag set and set a destination, and the first tick
\* that acted after it emitted a move intent.
C20_Witness ==
    /\ called = "tick"
    /\ sinceGo.active /\ sinceGo.paused /\ sinceGo.acted
    /\ ~_paused
    /\ CountType(emitted, "engine.move") = 1

=============================================================================
